---- MODULE Spec2Model ----
(***************************************************************************)
(* Part B of the repository: the family-tree builder of src/Part_B.py.     *)
(* create_family_tree reconciles the spouse column of the person table     *)
(* (complete_spouses), derives the direct, sibling and child edges, sorts  *)
(* them by (int(Person_Id), int(Relative_Id)) and writes family_tree.txt.  *)
(***************************************************************************)
EXTENDS Integers, Sequences, FiniteSets, TLC

(* ------------------------------ bounds --------------------------------- *)
\* longest person table
MaxPersons == 3
\* most non-empty reference cells of a table that mixes parent and spouse
\* cells, or that has MaxPersons rows and a parent cell
MaxRefs == 2
\* calls of create_family_tree on one table (SpecRerun)
MaxRuns == 2

(* --------------------------- the value space --------------------------- *)
\* Python's None: parse_table never keeps an empty string (it stores None
\* instead), so the empty string is free to stand for None; both are falsy.
None == ""

\* the identifier literals of the input files, in the order the files list
\* their persons
IdOrder == <<"10", "1", "2", "x">>

IdPool == {IdOrder[k] : k \in 1..Len(IdOrder)}

GenderVals == {"M", "F"}

\* ConnectionType: the enum's values
FATHER == "Father"
MOTHER == "Mother"
BROTHER == "Brother"
SISTER == "Sister"
SON == "Son"
DAUGHTER == "Daughter"
MALE_PARTNER == "Male partner"
FEMALE_PARTNER == "Female partner"

\* int(s) of a stripped cell: the decimal literals parse, anything else
\* raises ValueError
IsInt(s) == s \in {"1", "2", "10"}

int(s) ==
  CASE s = "1" -> 1
    [] s = "2" -> 2
    [] s = "10" -> 10

\* bool(v) of a cell value: None (and the empty string) are falsy
Truthy(v) == v # None

RefFields == {"Father_Id", "Mother_Id", "Spouse_Id"}

\* entry_table: the table as it was when create_family_tree was entered
\* persons_dict: the table, mutated in place by complete_spouses
\* i: the record complete_spouses is at;  pc: the statement the call is at
\* family_tree, family_tree_sorted: the locals of create_family_tree
\* family_tree_txt: the output file;  run: the number of the call
VARIABLES entry_table, persons_dict, i, pc, family_tree, family_tree_sorted,
          family_tree_txt, run

vars == <<entry_table, persons_dict, i, pc, family_tree, family_tree_sorted,
          family_tree_txt, run>>

(* ------------------------------ helpers -------------------------------- *)
RECURSIVE Cat(_)
\* the concatenation of a sequence of sequences: the appends of a loop
Cat(ss) == IF ss = <<>> THEN <<>> ELSE Head(ss) \o Cat(Tail(ss))

Edge(pid, rid, kind) ==
  [Person_Id |-> pid, Relative_Id |-> rid, Connection_Type |-> kind]

\* id_dict.get(key): the index of the record stored under key, 0 for None.
\* A later record with the same Person_Id replaces an earlier one.
IdDictGet(records, key) ==
  LET hits == {k \in 1..Len(records) : records[k].Person_Id = key}
  IN IF hits = {} THEN 0 ELSE CHOOSE k \in hits : \A j \in hits : j <= k

(* --------------------------- complete_spouses -------------------------- *)
\* a variant that updates the wrong side: the record takes over what its
\* spouse names
SpouseIteration_WrongSide(records, k) ==
  LET person == records[k]
      spouse_id == person.Spouse_Id
      s == IdDictGet(records, spouse_id)
  IN IF Truthy(spouse_id) /\ s # 0 /\ records[s].Spouse_Id # person.Person_Id
       THEN [records EXCEPT ![k].Spouse_Id = records[s].Spouse_Id]
       ELSE records

\* a variant that only fills a missing spouse id and never overwrites one
SpouseIteration_FillOnly(records, k) ==
  LET person == records[k]
      spouse_id == person.Spouse_Id
      s == IdDictGet(records, spouse_id)
  IN IF Truthy(spouse_id) /\ s # 0 /\ records[s].Spouse_Id = None
       THEN [records EXCEPT ![s].Spouse_Id = person.Person_Id]
       ELSE records

\* a variant that also clears the spouse id of the record the spouse named
\* before
SpouseIteration_ClearOld(records, k) ==
  LET person == records[k]
      spouse_id == person.Spouse_Id
      s == IdDictGet(records, spouse_id)
      old == IF s = 0 THEN 0 ELSE IdDictGet(records, records[s].Spouse_Id)
  IN IF Truthy(spouse_id) /\ s # 0 /\ records[s].Spouse_Id # person.Person_Id
       THEN [r \in 1..Len(records) |->
               IF r = s THEN [records[r] EXCEPT !.Spouse_Id = person.Person_Id]
               ELSE IF r = old /\ r # k
                      THEN [records[r] EXCEPT !.Spouse_Id = None]
                      ELSE records[r]]
       ELSE records

\* one iteration of the loop over persons_records, for the record at k
SpouseIteration(records, k) ==
  LET person == records[k]
      spouse_id == person.Spouse_Id
      s == IdDictGet(records, spouse_id)
  IN IF Truthy(spouse_id) /\ s # 0 /\ records[s].Spouse_Id # person.Person_Id
       THEN [records EXCEPT ![s].Spouse_Id = person.Person_Id]
       ELSE records

(* -------------------------- create_family_tree ------------------------- *)
\* a variant that labels the partner edge with the subject's own side
DirectEdgesOf_OwnLabel(person) ==
  LET pid == person.Person_Id
      gender == person.Gender
      father_id == person.Father_Id
      mother_id == person.Mother_Id
      spouse_id == person.Spouse_Id
      type_spouse == IF gender = "M" THEN MALE_PARTNER ELSE FEMALE_PARTNER
  IN (IF father_id # None THEN <<Edge(pid, father_id, FATHER)>> ELSE <<>>)
     \o (IF mother_id # None THEN <<Edge(pid, mother_id, MOTHER)>> ELSE <<>>)
     \o (IF spouse_id # None THEN <<Edge(pid, spouse_id, type_spouse)>> ELSE <<>>)

\* the appends of one iteration of the loop over persons_dict
DirectEdgesOf(person) ==
  LET pid == person.Person_Id
      gender == person.Gender
      father_id == person.Father_Id
      mother_id == person.Mother_Id
      spouse_id == person.Spouse_Id
      type_spouse == IF gender = "M" THEN FEMALE_PARTNER ELSE MALE_PARTNER
  IN (IF father_id # None THEN <<Edge(pid, father_id, FATHER)>> ELSE <<>>)
     \o (IF mother_id # None THEN <<Edge(pid, mother_id, MOTHER)>> ELSE <<>>)
     \o (IF spouse_id # None THEN <<Edge(pid, spouse_id, type_spouse)>> ELSE <<>>)

\* a variant that drops the edges whose related id names no record
DirectEdges_ResolvedOnly(records) ==
  SelectSeq(Cat([k \in 1..Len(records) |-> DirectEdgesOf(records[k])]),
            LAMBDA e : \E k \in 1..Len(records) : records[k].Person_Id = e.Relative_Id)

\* the loop over persons_dict
DirectEdges(records) ==
  Cat([k \in 1..Len(records) |-> DirectEdgesOf(records[k])])

(* ------------------------------ find_siblings -------------------------- *)
\* a variant that labels the edge by the subject's gender
SiblingEdgeOf_SubjectGender(person, other) ==
  LET pid == person.Person_Id
      father_id == person.Father_Id
      mother_id == person.Mother_Id
      oid == other.Person_Id
      other_father_id == other.Father_Id
      other_mother_id == other.Mother_Id
      gender == person.Gender
      type_relation == IF gender = "M" THEN BROTHER ELSE SISTER
  IN IF pid # oid /\ Truthy(father_id) /\ Truthy(mother_id)
        /\ father_id = other_father_id /\ mother_id = other_mother_id
       THEN <<Edge(pid, oid, type_relation)>>
       ELSE <<>>

\* the body of the inner loop for the pair (person, other)
SiblingEdgeOf(person, other) ==
  LET pid == person.Person_Id
      father_id == person.Father_Id
      mother_id == person.Mother_Id
      oid == other.Person_Id
      other_father_id == other.Father_Id
      other_mother_id == other.Mother_Id
      gender == other.Gender
      type_relation == IF gender = "M" THEN BROTHER ELSE SISTER
  IN IF pid # oid /\ Truthy(father_id) /\ Truthy(mother_id)
        /\ father_id = other_father_id /\ mother_id = other_mother_id
       THEN <<Edge(pid, oid, type_relation)>>
       ELSE <<>>

find_siblings(records) ==
  Cat([k \in 1..Len(records) |->
        Cat([j \in 1..Len(records) |-> SiblingEdgeOf(records[k], records[j])])])

(* -------------------------------- find_kids ---------------------------- *)
\* a variant that looks at the father id alone
KidEdgeOf_FatherOnly(parent, child) ==
  LET pid == parent.Person_Id
      cid == child.Person_Id
      father_id == child.Father_Id
      gender == child.Gender
      type_relation == IF gender = "M" THEN SON ELSE DAUGHTER
  IN IF father_id = pid
       THEN <<Edge(pid, cid, type_relation)>>
       ELSE <<>>

\* a variant that appends one edge per matching parent id
KidEdgeOf_PerParentId(parent, child) ==
  LET pid == parent.Person_Id
      cid == child.Person_Id
      father_id == child.Father_Id
      mother_id == child.Mother_Id
      gender == child.Gender
      type_relation == IF gender = "M" THEN SON ELSE DAUGHTER
  IN (IF father_id = pid THEN <<Edge(pid, cid, type_relation)>> ELSE <<>>)
     \o (IF mother_id = pid THEN <<Edge(pid, cid, type_relation)>> ELSE <<>>)

\* the body of the inner loop for the pair (parent, child)
KidEdgeOf(parent, child) ==
  LET pid == parent.Person_Id
      cid == child.Person_Id
      father_id == child.Father_Id
      mother_id == child.Mother_Id
      gender == child.Gender
      type_relation == IF gender = "M" THEN SON ELSE DAUGHTER
  IN IF father_id = pid \/ mother_id = pid
       THEN <<Edge(pid, cid, type_relation)>>
       ELSE <<>>

find_kids(records) ==
  Cat([k \in 1..Len(records) |->
        Cat([j \in 1..Len(records) |-> KidEdgeOf(records[k], records[j])])])

(* --------------------------------- sorted ------------------------------ *)
\* the key function: lambda row: (int(row["Person_Id"]), int(row['Relative_Id']))
SortKey(row) == <<int(row.Person_Id), int(row.Relative_Id)>>

\* a variant that compares the subject ids alone
KeyLess_SubjectOnly(a, b) == a[1] < b[1]

\* tuple comparison a < b
KeyLess(a, b) == a[1] < b[1] \/ (a[1] = b[1] /\ a[2] < b[2])

\* the key function raises ValueError on some row
KeyRaises(rows) ==
  \E k \in 1..Len(rows) : ~IsInt(rows[k].Person_Id) \/ ~IsInt(rows[k].Relative_Id)

\* row goes behind every row whose key is not greater: sorted() is stable
InsertRow(rows, row) ==
  LET before == {k \in 1..Len(rows) : ~KeyLess(SortKey(row), SortKey(rows[k]))}
      n == Cardinality(before)
  IN SubSeq(rows, 1, n) \o <<row>> \o SubSeq(rows, n + 1, Len(rows))

RECURSIVE sorted(_)
sorted(rows) ==
  IF rows = <<>> THEN <<>>
  ELSE InsertRow(sorted(SubSeq(rows, 1, Len(rows) - 1)), rows[Len(rows)])

(* ------------------------------ input tables --------------------------- *)
\* the cells of a table of n rows that may hold a reference
Slots(n) == (1..n) \X RefFields

SpouseSlots(n) == (1..n) \X {"Spouse_Id"}

\* the Person_Id columns of n rows: unique identifiers (the input contract).
\* The passes compare identifiers for equality only, so which literal sits
\* in which row matters to sorted() alone; the rows keep the order of IdOrder.
IdColumns(n) ==
  { [k \in 1..n |-> IdOrder[at[k]]] :
      at \in {f \in [1..n -> 1..Len(IdOrder)] :
                \A a, b \in 1..n : a < b => f[a] < f[b]} }

\* the table parse_table returns for these cells
Table(n, ids, g, refs) ==
  [k \in 1..n |->
     [Person_Id |-> ids[k], Gender |-> g[k],
      Father_Id |-> IF <<k, "Father_Id">> \in DOMAIN refs
                      THEN refs[<<k, "Father_Id">>] ELSE None,
      Mother_Id |-> IF <<k, "Mother_Id">> \in DOMAIN refs
                      THEN refs[<<k, "Mother_Id">>] ELSE None,
      Spouse_Id |-> IF <<k, "Spouse_Id">> \in DOMAIN refs
                      THEN refs[<<k, "Spouse_Id">>] ELSE None]]

\* the sets of non-empty reference cells of the tables of n rows: any spouse
\* cells; or any parent cells in a table shorter than MaxPersons; or any
\* cells in a table two rows shorter; or at most MaxRefs cells of any kind
CellSets(n) ==
  { c \in SUBSET Slots(n) :
      \/ c \subseteq SpouseSlots(n)
      \/ (n < MaxPersons /\ c \cap SpouseSlots(n) = {})
      \/ n + 1 < MaxPersons
      \/ Cardinality(c) <= MaxRefs }

NoFile == [exists |-> FALSE, rows |-> <<>>]

(* -------------------------------- the runs ----------------------------- *)
\* create_family_tree(persons_table) is entered with this table
Start(table) ==
  /\ entry_table = table
  /\ persons_dict = table
  /\ i = 1
  /\ pc = "complete_spouses"
  /\ family_tree = <<>>
  /\ family_tree_sorted = <<>>
  /\ family_tree_txt = NoFile
  /\ run = 1

\* parse_table(file), then the call create_family_tree(persons_table)
Init ==
  \E n \in 0..MaxPersons :
    \E ids \in IdColumns(n), g \in [1..n -> GenderVals], c \in CellSets(n) :
      \E refs \in [c -> IdPool] : Start(Table(n, ids, g, refs))

\* the tables whose only references are spouses
InitCouples ==
  \E n \in 0..MaxPersons :
    \E ids \in IdColumns(n), g \in [1..n -> GenderVals], c \in SUBSET SpouseSlots(n) :
      \E refs \in [c -> IdPool] : Start(Table(n, ids, g, refs))

\* complete_spouses: one iteration of its loop
CompleteSpousesStep ==
  /\ pc = "complete_spouses"
  /\ i <= Len(persons_dict)
  /\ persons_dict' = SpouseIteration(persons_dict, i)
  /\ i' = i + 1
  /\ UNCHANGED <<entry_table, pc, family_tree, family_tree_sorted, family_tree_txt, run>>

\* complete_spouses has returned: the loop of create_family_tree over the
\* persons appends the Father, Mother and partner rows
AddDirectEdges ==
  /\ pc = "complete_spouses"
  /\ i > Len(persons_dict)
  /\ family_tree' = family_tree \o DirectEdges(persons_dict)
  /\ pc' = "find_siblings"
  /\ UNCHANGED <<entry_table, persons_dict, i, family_tree_sorted, family_tree_txt, run>>

FindSiblings ==
  /\ pc = "find_siblings"
  /\ family_tree' = family_tree \o find_siblings(persons_dict)
  /\ pc' = "find_kids"
  /\ UNCHANGED <<entry_table, persons_dict, i, family_tree_sorted, family_tree_txt, run>>

FindKids ==
  /\ pc = "find_kids"
  /\ family_tree' = family_tree \o find_kids(persons_dict)
  /\ pc' = "sorted"
  /\ UNCHANGED <<entry_table, persons_dict, i, family_tree_sorted, family_tree_txt, run>>

\* a variant that falls back to the insertion order when a key does not parse
Sort_Fallback ==
  /\ pc = "sorted"
  /\ pc' = "write"
  /\ family_tree_sorted' = IF KeyRaises(family_tree) THEN family_tree
                                                     ELSE sorted(family_tree)
  /\ UNCHANGED <<entry_table, persons_dict, i, family_tree, family_tree_txt, run>>

\* sorted(family_tree, key=...): the ValueError of int() ends the program
Sort ==
  /\ pc = "sorted"
  /\ IF KeyRaises(family_tree)
       THEN /\ pc' = "ValueError"
            /\ UNCHANGED family_tree_sorted
       ELSE /\ pc' = "write"
            /\ family_tree_sorted' = sorted(family_tree)
  /\ UNCHANGED <<entry_table, persons_dict, i, family_tree, family_tree_txt, run>>

\* open("family_tree.txt", 'w') and one line per row
Write ==
  /\ pc = "write"
  /\ family_tree_txt' = [exists |-> TRUE, rows |-> family_tree_sorted]
  /\ pc' = "done"
  /\ UNCHANGED <<entry_table, persons_dict, i, family_tree, family_tree_sorted, run>>

\* create_family_tree is called again on the table the last call left behind
Rerun ==
  /\ pc = "done"
  /\ run < MaxRuns
  /\ run' = run + 1
  /\ entry_table' = persons_dict
  /\ i' = 1
  /\ pc' = "complete_spouses"
  /\ family_tree' = <<>>
  /\ family_tree_sorted' = <<>>
  /\ UNCHANGED <<persons_dict, family_tree_txt>>

\* one call of create_family_tree, as __main__ makes it
Next ==
  \/ CompleteSpousesStep
  \/ AddDirectEdges
  \/ FindSiblings
  \/ FindKids
  \/ Sort
  \/ Write

\* repeated calls on the same table
NextRerun ==
  \/ CompleteSpousesStep
  \/ AddDirectEdges
  \/ FindSiblings
  \/ FindKids
  \/ Sort
  \/ Write
  \/ Rerun

Spec == Init /\ [][Next]_vars

SpecCouples == InitCouples /\ [][Next]_vars

SpecRerun == InitCouples /\ [][NextRerun]_vars

(* ------------------------------ the claims ----------------------------- *)
Rows == 1..Len(persons_dict)

\* complete_spouses has gone through every record of the table
Reconciled == i > Len(persons_dict)

\* key names a record of the table
Names(records, key) == \E k \in 1..Len(records) : records[k].Person_Id = key

\* the number of rows of seq that satisfy Test
Count(seq, Test(_)) == Cardinality({k \in 1..Len(seq) : Test(seq[k])})

\* C1: once complete_spouses has finished, whenever A's spouse id is B's
\* identifier, B's spouse id is A's identifier (A's spouse id naming no
\* record is the only exemption).
C1_SpouseSymmetry ==
  Reconciled =>
    \A a, b \in Rows :
      persons_dict[a].Spouse_Id = persons_dict[b].Person_Id
        => persons_dict[b].Spouse_Id = persons_dict[a].Person_Id

(* the positions of a run *)
AfterDirect == pc # "complete_spouses"
AfterSiblings == pc \notin {"complete_spouses", "find_siblings"}
AfterKids == pc \notin {"complete_spouses", "find_siblings", "find_kids"}

SiblingKinds == {BROTHER, SISTER}
KidKinds == {SON, DAUGHTER}
PartnerKinds == {MALE_PARTNER, FEMALE_PARTNER}

\* the rows of family_tree from subject id to related id with a kind of kinds
Links(pid, rid, kinds) ==
  Count(family_tree, LAMBDA e : e.Person_Id = pid /\ e.Relative_Id = rid
                                 /\ e.Connection_Type \in kinds)

\* both father ids non-null and equal, both mother ids non-null and equal
FullSiblings(P, O) ==
  /\ P.Father_Id # None /\ O.Father_Id # None /\ P.Father_Id = O.Father_Id
  /\ P.Mother_Id # None /\ O.Mother_Id # None /\ P.Mother_Id = O.Mother_Id

\* C2: find_siblings emits exactly one edge (P.id, O.id, kind) for each
\* ordered pair of distinct records with equal non-null father ids and equal
\* non-null mother ids, and no other sibling edge; the kind is Brother when
\* the related record O has gender "M" and Sister otherwise.  Half-siblings
\* and records with a null parent id get none.
C2_SiblingInference ==
  AfterSiblings =>
    /\ \A a, b \in Rows :
         LET P == persons_dict[a]
             O == persons_dict[b]
             kind == IF O.Gender = "M" THEN BROTHER ELSE SISTER
         IN /\ Links(P.Person_Id, O.Person_Id, SiblingKinds)
                 = IF a # b /\ FullSiblings(P, O) THEN 1 ELSE 0
            /\ Links(P.Person_Id, O.Person_Id, SiblingKinds \ {kind}) = 0
    /\ \A k \in 1..Len(family_tree) :
         family_tree[k].Connection_Type \in SiblingKinds
           => /\ Names(persons_dict, family_tree[k].Person_Id)
              /\ Names(persons_dict, family_tree[k].Relative_Id)

\* C2's case: a full-sibling pair of different genders has its two edges
C2_Witness ==
  /\ AfterSiblings
  /\ \E a, b \in Rows :
       /\ a # b
       /\ FullSiblings(persons_dict[a], persons_dict[b])
       /\ persons_dict[a].Gender = "M" /\ persons_dict[b].Gender = "F"
       /\ Links(persons_dict[a].Person_Id, persons_dict[b].Person_Id, {SISTER}) = 1
       /\ Links(persons_dict[b].Person_Id, persons_dict[a].Person_Id, {BROTHER}) = 1

\* one child edge per (Parent, Child) pair whose father id or mother id is
\* the parent's identifier, Son for a child of gender "M", else Daughter
KidEdgesExact ==
  /\ \A a, b \in Rows :
       LET Parent == persons_dict[a]
           Child == persons_dict[b]
           kind == IF Child.Gender = "M" THEN SON ELSE DAUGHTER
       IN /\ Links(Parent.Person_Id, Child.Person_Id, KidKinds)
               = IF Child.Father_Id = Parent.Person_Id
                    \/ Child.Mother_Id = Parent.Person_Id THEN 1 ELSE 0
          /\ Links(Parent.Person_Id, Child.Person_Id, KidKinds \ {kind}) = 0
  /\ \A k \in 1..Len(family_tree) :
       family_tree[k].Connection_Type \in KidKinds
         => /\ Names(persons_dict, family_tree[k].Person_Id)
            /\ Names(persons_dict, family_tree[k].Relative_Id)

\* the child edges that end at the record at b
KidEdgesTo(b) ==
  Count(family_tree, LAMBDA e : e.Relative_Id = persons_dict[b].Person_Id
                                 /\ e.Connection_Type \in KidKinds)

\* no record names itself as father, mother or spouse
NoSelfReference(records) ==
  \A k \in 1..Len(records) : \A f \in RefFields :
    records[k][f] # records[k].Person_Id

\* C3 as stated (already on the tables where no record names itself): the
\* child edges are exactly those of KidEdgesExact, and a child whose father
\* and mother are both records of the table has two.
C3_AsStated ==
  (AfterKids /\ NoSelfReference(entry_table)) =>
    /\ KidEdgesExact
    /\ \A b \in Rows :
         (Names(persons_dict, persons_dict[b].Father_Id)
            /\ Names(persons_dict, persons_dict[b].Mother_Id))
           => KidEdgesTo(b) = 2

\* C3, amended: the child edges are exactly those of KidEdgesExact, and a
\* child whose father id and mother id name two different records of the
\* table has two child edges, one from each; a child whose father id and
\* mother id name the same record has one.
C3_ChildInference ==
  AfterKids =>
    /\ KidEdgesExact
    /\ \A b \in Rows :
         (Names(persons_dict, persons_dict[b].Father_Id)
            /\ Names(persons_dict, persons_dict[b].Mother_Id)
            /\ persons_dict[b].Father_Id # persons_dict[b].Mother_Id)
           => /\ KidEdgesTo(b) = 2
              /\ Links(persons_dict[b].Father_Id, persons_dict[b].Person_Id, KidKinds) = 1
              /\ Links(persons_dict[b].Mother_Id, persons_dict[b].Person_Id, KidKinds) = 1
    /\ \A b \in Rows :
         (Names(persons_dict, persons_dict[b].Father_Id)
            /\ persons_dict[b].Father_Id = persons_dict[b].Mother_Id)
           => KidEdgesTo(b) = 1

\* C3's case: a child of two other records of the table, after find_kids
C3_Witness ==
  /\ AfterKids
  /\ \E b \in Rows :
       /\ Names(persons_dict, persons_dict[b].Father_Id)
       /\ Names(persons_dict, persons_dict[b].Mother_Id)
       /\ persons_dict[b].Father_Id # persons_dict[b].Mother_Id
       /\ persons_dict[b].Person_Id \notin {persons_dict[b].Father_Id, persons_dict[b].Mother_Id}
       /\ KidEdgesTo(b) = 2

\* the rows of family_tree with subject id pid and a kind of kinds
LinksFrom(pid, kinds) ==
  Count(family_tree, LAMBDA e : e.Person_Id = pid /\ e.Connection_Type \in kinds)

\* spec 8's example: only person 1 (gender M) records a spouse, person 2
ExampleCouple ==
  << [Person_Id |-> "1", Gender |-> "M", Father_Id |-> None, Mother_Id |-> None,
      Spouse_Id |-> "2"],
     [Person_Id |-> "2", Gender |-> "F", Father_Id |-> None, Mother_Id |-> None,
      Spouse_Id |-> None] >>

\* C4: for every record P of the reconciled table the direct pass emits
\* (P.id, father id, Father) iff the father id is non-null, (P.id, mother
\* id, Mother) iff the mother id is non-null and (P.id, spouse id, kind) iff
\* the spouse id is non-null, kind being FemalePartner when P's own gender
\* is "M" and MalePartner otherwise; the related id is the id stored in the
\* field.  The table of the example (person 1, gender M, records spouse 2;
\* person 2, gender F, records none) yields (1,2,FemalePartner) and
\* (2,1,MalePartner).
C4_DirectEdges ==
  AfterDirect =>
    /\ \A a \in Rows :
         LET P == persons_dict[a]
             kind == IF P.Gender = "M" THEN FEMALE_PARTNER ELSE MALE_PARTNER
         IN /\ LinksFrom(P.Person_Id, {FATHER}) = IF P.Father_Id # None THEN 1 ELSE 0
            /\ LinksFrom(P.Person_Id, {FATHER}) = Links(P.Person_Id, P.Father_Id, {FATHER})
            /\ LinksFrom(P.Person_Id, {MOTHER}) = IF P.Mother_Id # None THEN 1 ELSE 0
            /\ LinksFrom(P.Person_Id, {MOTHER}) = Links(P.Person_Id, P.Mother_Id, {MOTHER})
            /\ LinksFrom(P.Person_Id, PartnerKinds) = IF P.Spouse_Id # None THEN 1 ELSE 0
            /\ LinksFrom(P.Person_Id, PartnerKinds) = Links(P.Person_Id, P.Spouse_Id, {kind})
    /\ \A k \in 1..Len(family_tree) :
         family_tree[k].Connection_Type \in {FATHER, MOTHER} \cup PartnerKinds
           => Names(persons_dict, family_tree[k].Person_Id)
    /\ entry_table = ExampleCouple =>
         /\ Links("1", "2", {FEMALE_PARTNER}) = 1
         /\ Links("2", "1", {MALE_PARTNER}) = 1

\* C4's case: the example table after the direct pass, with its two edges
C4_Witness ==
  /\ AfterDirect
  /\ entry_table = ExampleCouple
  /\ family_tree = << Edge("1", "2", FEMALE_PARTNER), Edge("2", "1", MALE_PARTNER) >>

\* every identifier of the table parses as an integer
AllNumeric(records) ==
  \A k \in 1..Len(records) :
    /\ IsInt(records[k].Person_Id)
    /\ \A f \in RefFields : records[k][f] # None => IsInt(records[k][f])

Sorted == pc \in {"write", "done"}

\* the rows of seq from subject id pid to related id rid, in their order
RowsOf(seq, pid, rid) ==
  SelectSeq(seq, LAMBDA e : e.Person_Id = pid /\ e.Relative_Id = rid)

\* C5: a table whose identifiers all parse as integers is sorted without
\* failure; the sorted list is in non-decreasing order of (int(subject id),
\* int(related id)); it holds exactly the rows the three passes appended;
\* and rows of one (subject id, related id) pair stay in the order of their
\* insertion whatever their kinds.
C5_OutputOrdering ==
  /\ (AllNumeric(entry_table) => pc # "ValueError")
  /\ Sorted =>
       /\ \A k \in 1..(Len(family_tree_sorted) - 1) :
            LET r == family_tree_sorted[k]
                n == family_tree_sorted[k + 1]
            IN \/ int(r.Person_Id) < int(n.Person_Id)
               \/ /\ int(r.Person_Id) = int(n.Person_Id)
                  /\ int(r.Relative_Id) <= int(n.Relative_Id)
       /\ Len(family_tree_sorted) = Len(family_tree)
       /\ \A k \in 1..Len(family_tree) :
            LET e == family_tree[k]
            IN RowsOf(family_tree_sorted, e.Person_Id, e.Relative_Id)
                 = RowsOf(family_tree, e.Person_Id, e.Relative_Id)

\* C5's case: a list the passes left out of order, holding two rows of one
\* (subject id, related id) pair with different kinds, has been sorted, and
\* subject 2 stands before subject 10
C5_Witness ==
  /\ Sorted
  /\ AllNumeric(entry_table)
  /\ family_tree_sorted # family_tree
  /\ \E k \in 1..(Len(family_tree_sorted) - 1) :
       /\ family_tree_sorted[k].Person_Id = family_tree_sorted[k + 1].Person_Id
       /\ family_tree_sorted[k].Relative_Id = family_tree_sorted[k + 1].Relative_Id
       /\ family_tree_sorted[k].Connection_Type # family_tree_sorted[k + 1].Connection_Type
  /\ \E k \in 1..(Len(family_tree_sorted) - 1) :
       /\ family_tree_sorted[k].Person_Id = "2"
       /\ family_tree_sorted[k + 1].Person_Id = "10"

Dangling(records, v) == v # None /\ ~Names(records, v)

\* the kind of the direct edge of field f of record P
DirectKind(P, f) ==
  CASE f = "Father_Id" -> FATHER
    [] f = "Mother_Id" -> MOTHER
    [] f = "Spouse_Id" -> IF P.Gender = "M" THEN FEMALE_PARTNER ELSE MALE_PARTNER

\* the edges derived so far keep clear of failure for the dangling ids
C7_State ==
  /\ AfterDirect =>
       \A a \in Rows : \A f \in RefFields :
         LET P == persons_dict[a]
         IN Dangling(persons_dict, P[f])
              => Links(P.Person_Id, P[f], {DirectKind(P, f)}) = 1
  /\ \A k \in 1..Len(family_tree) :
       family_tree[k].Connection_Type \in SiblingKinds \cup KidKinds
         => /\ ~Dangling(persons_dict, family_tree[k].Person_Id)
            /\ ~Dangling(persons_dict, family_tree[k].Relative_Id)
  /\ AllNumeric(entry_table) => pc # "ValueError"

\* the iteration of complete_spouses for a record with a dangling spouse id
\* leaves the table as it is
C7_Step ==
  (pc = "complete_spouses" /\ i <= Len(persons_dict)
     /\ Dangling(persons_dict, persons_dict[i].Spouse_Id))
    => persons_dict' = persons_dict

HasRef(records, a) == \E f \in RefFields : records[a][f] # None

\* C8 as stated: when some identifier of the input table, a person's own
\* or a referenced one, does not parse as an integer, the call never gets
\* past the sort and writes nothing.
C8_AsStated ==
  ~AllNumeric(entry_table) => (pc \notin {"write", "done"} /\ ~family_tree_txt.exists)

\* an identifier of an edge of the reconciled table does not parse: a
\* non-null father, mother or spouse id, or the identifier of a record that
\* has one
BadEdgeId(records) ==
  \E a \in 1..Len(records) :
    /\ HasRef(records, a)
    /\ \/ ~IsInt(records[a].Person_Id)
       \/ \E f \in RefFields : records[a][f] # None /\ ~IsInt(records[a][f])

\* C8, amended: when, in the reconciled table, a non-null father, mother or
\* spouse id, or the identifier of a record that has one, does not parse as
\* an integer, create_family_tree ends in the ValueError of the sort, keeps no
\* sorted list and writes nothing; it fails in no other case.  (An
\* unparseable identifier of a record without references that nobody refers
\* to, or an unparseable spouse id that reconciliation overwrites, is never
\* parsed.)
C8_NonNumericFatal ==
  /\ (AfterKids /\ pc # "sorted" /\ BadEdgeId(persons_dict)) => pc = "ValueError"
  /\ pc = "ValueError" => BadEdgeId(persons_dict)
  /\ pc = "ValueError" => (family_tree_sorted = <<>> /\ ~family_tree_txt.exists)
  /\ BadEdgeId(persons_dict) => (family_tree_sorted = <<>> /\ ~family_tree_txt.exists)

\* C8's case: the sort has failed on a table whose only unparseable
\* identifier is a referenced one
C8_Witness ==
  /\ pc = "ValueError"
  /\ \A a \in Rows : IsInt(persons_dict[a].Person_Id)
  /\ BadEdgeId(persons_dict)
  /\ family_tree # <<>>

\* C9 as stated (already on the tables where no record names itself): the
\* output holds at most one row per (subject id, related id) pair.
C9_AsStated ==
  (AfterKids /\ NoSelfReference(entry_table)) =>
    \A j, k \in 1..Len(family_tree) :
      (j # k /\ family_tree[j].Person_Id = family_tree[k].Person_Id)
        => family_tree[j].Relative_Id # family_tree[k].Relative_Id

\* C9, amended: for a table with unique person identifiers no two rows of
\* the output are exact duplicates: rows of one (subject id, related id)
\* pair differ in their kind.
C9_NoExactDuplicates ==
  /\ AfterKids =>
       \A j, k \in 1..Len(family_tree) : j # k => family_tree[j] # family_tree[k]
  /\ Sorted =>
       \A j, k \in 1..Len(family_tree_sorted) :
         j # k => family_tree_sorted[j] # family_tree_sorted[k]

\* C9's case: a written output with two rows of one (subject id, related
\* id) pair, a direct edge and a child edge
C9_Witness ==
  /\ pc = "done"
  /\ \E j, k \in 1..Len(family_tree_txt.rows) :
       /\ j # k
       /\ family_tree_txt.rows[j].Person_Id = family_tree_txt.rows[k].Person_Id
       /\ family_tree_txt.rows[j].Relative_Id = family_tree_txt.rows[k].Relative_Id
       /\ family_tree_txt.rows[j].Connection_Type \in {FATHER, MOTHER} \cup PartnerKinds
       /\ family_tree_txt.rows[k].Connection_Type \in KidKinds

\* the records of the table as entered whose spouse id is the id of the record at s
InputNamers(s) ==
  {k \in 1..Len(entry_table) : entry_table[k].Spouse_Id = entry_table[s].Person_Id}

Latest(rows) == CHOOSE k \in rows : \A j \in rows : j <= k

\* C10 as stated (already on the tables where no record names itself):
\* after complete_spouses a record named as spouse by records of the input
\* table has the identifier of the latest of them in table order as its
\* spouse id.
C10_AsStated ==
  (Reconciled /\ NoSelfReference(entry_table)) =>
    \A s \in Rows :
      InputNamers(s) # {}
        => persons_dict[s].Spouse_Id = entry_table[Latest(InputNamers(s))].Person_Id

\* C10, amended: the iteration of complete_spouses for a record R whose
\* spouse id, at the moment R is processed, is the identifier of a record S
\* leaves S with R's identifier as its spouse id, whatever S named before;
\* no other step changes a spouse id.  So S ends with the identifier of the
\* latest record, in table order, that named S when it was processed.
C10_LatestNamerWins ==
  [][\A s \in Rows :
       IF pc = "complete_spouses" /\ i <= Len(persons_dict)
            /\ persons_dict[i].Spouse_Id = persons_dict[s].Person_Id
         THEN persons_dict'[s].Spouse_Id = persons_dict[i].Person_Id
         ELSE persons_dict'[s].Spouse_Id = persons_dict[s].Spouse_Id]_vars

\* C10's case: reconciliation is over and has replaced the third identifier
\* a record named by the identifier of the latest of two records naming it
C10_Witness ==
  /\ Reconciled
  /\ \E s \in Rows :
       /\ Cardinality(InputNamers(s)) >= 2
       /\ entry_table[s].Spouse_Id # None
       /\ \A k \in InputNamers(s) : entry_table[s].Spouse_Id # entry_table[k].Person_Id
       /\ persons_dict[s].Spouse_Id = entry_table[Latest(InputNamers(s))].Person_Id

\* the fields of a record that complete_spouses never assigns
FrameFields == {"Person_Id", "Gender", "Father_Id", "Mother_Id"}

\* the table has the records of the table as entered, in their order, with
\* every field but Spouse_Id as it was; a spouse id that differs from the
\* one entered is the identifier of a record of the table, never None; and
\* while complete_spouses is still at work no edge has been derived
C11_State ==
  /\ Len(persons_dict) = Len(entry_table)
  /\ \A k \in Rows :
       /\ DOMAIN persons_dict[k] = DOMAIN entry_table[k]
       /\ \A f \in FrameFields : persons_dict[k][f] = entry_table[k][f]
       /\ persons_dict[k].Spouse_Id # entry_table[k].Spouse_Id
            => /\ persons_dict[k].Spouse_Id # None
               /\ Names(persons_dict, persons_dict[k].Spouse_Id)
  /\ ~Reconciled => (pc = "complete_spouses" /\ family_tree = <<>>)
  /\ family_tree # <<>> => Reconciled

\* a step that changes the table is an iteration of complete_spouses, taken
\* before any edge exists; it keeps the records, their order and every field
\* but Spouse_Id; a spouse id it changes is that of a record the processed
\* record names as spouse, and becomes the processed record's identifier
C11_Step ==
  /\ persons_dict' # persons_dict
       => /\ pc = "complete_spouses" /\ pc' = "complete_spouses"
          /\ i <= Len(persons_dict)
          /\ family_tree = <<>> /\ family_tree' = <<>>
  /\ pc # "complete_spouses" => persons_dict' = persons_dict
  /\ Len(persons_dict') = Len(persons_dict)
  /\ \A s \in Rows :
       /\ \A f \in FrameFields : persons_dict'[s][f] = persons_dict[s][f]
       /\ persons_dict'[s].Spouse_Id # persons_dict[s].Spouse_Id
            => /\ persons_dict[i].Spouse_Id = persons_dict[s].Person_Id
               /\ persons_dict'[s].Spouse_Id = persons_dict[i].Person_Id
               /\ persons_dict'[s].Spouse_Id # None

\* C11: the only mutation of the person table during create_family_tree is
\* made by complete_spouses, before any edge is derived, and it changes
\* Spouse_Id fields alone: the number and order of the records and every
\* identifier, gender, father id and mother id stay as entered; a record's
\* spouse id changes only when the record being processed names that record
\* as spouse at that moment, and it becomes the identifier of the naming
\* record, never None; the direct, sibling and child passes, the sort and
\* the write leave the table as it is.
C11_TableFrame == [](C11_State) /\ [][C11_Step]_vars

\* C11's case: a call has run to its end on a table with a parent id, and
\* its reconciliation has changed a spouse id
C11_Witness ==
  /\ pc = "done"
  /\ family_tree_txt.rows # <<>>
  /\ \E k \in Rows : persons_dict[k].Father_Id # None \/ persons_dict[k].Mother_Id # None
  /\ \E s \in Rows : persons_dict[s].Spouse_Id # entry_table[s].Spouse_Id

====
